---------------------------- MODULE Spec2Model ----------------------------
(***************************************************************************)
(* Model of ingest_electrical_csv (src/utils.py): the chunked CSV          *)
(* ingestion into the electrical_data table, with its column resolution,   *)
(* timestamp parsing, defensive coercions and per-chunk transaction.       *)
(*                                                                         *)
(* Text is a sequence of one-character strings, so that strip(), lower()   *)
(* and replace() are computed character by character as Python does.       *)
(***************************************************************************)
EXTENDS Integers, Sequences, FiniteSets, TLC

(***************************************************************************)
(* Bounds of the explored inputs.                                          *)
(***************************************************************************)
MaxRows == 5
MaxChunk == 3
MaxBad == 2
MaxRuns == 2

(***************************************************************************)
(* Text helpers: str.lower(), str.strip(), str.replace(",", ".").          *)
(***************************************************************************)
UpperChars == <<"A","B","C","D","E","F","G","H","I","J","K","L","M",
                "N","O","P","Q","R","S","T","U","V","W","X","Y","Z">>

LowerChars == <<"a","b","c","d","e","f","g","h","i","j","k","l","m",
                "n","o","p","q","r","s","t","u","v","w","x","y","z">>

Digits == <<"0","1","2","3","4","5","6","7","8","9">>

IsSpace(c) == c \in {" ", "\t"}

UpperSet == {UpperChars[i] : i \in 1..Len(UpperChars)}

LowerOf == [c \in UpperSet |-> LowerChars[CHOOSE i \in 1..Len(UpperChars) : UpperChars[i] = c]]

LowerChar(c) == IF c \in UpperSet THEN LowerOf[c] ELSE c

lower(s) == [i \in 1..Len(s) |-> LowerChar(s[i])]

strip(s) ==
  IF \A i \in 1..Len(s) : IsSpace(s[i])
    THEN << >>
    ELSE LET a == CHOOSE i \in 1..Len(s) :
                    ~IsSpace(s[i]) /\ \A j \in 1..(i-1) : IsSpace(s[j])
             b == CHOOSE i \in 1..Len(s) :
                    ~IsSpace(s[i]) /\ \A j \in (i+1)..Len(s) : IsSpace(s[j])
         IN  SubSeq(s, a, b)

replace_comma(s) == [i \in 1..Len(s) |-> IF s[i] = "," THEN "." ELSE s[i]]

(***************************************************************************)
(* Python values.  Every value has the same shape so that any two can be   *)
(* compared: t is the type tag, (m, e) the number m * 10^e of an int or a  *)
(* float (normalised: m has no trailing zero unless m = 0), s the text of  *)
(* a str.  A timestamp text or a datetime holds its instant in m and, for  *)
(* a text, its format in e (0 is '%Y-%m-%d %H:%M:%S').                     *)
(***************************************************************************)
Val(t, m, e, s) == [t |-> t, m |-> m, e |-> e, s |-> s]

PyNone == Val("None", 0, 0, << >>)
NaN == Val("nan", 0, 0, << >>)
Inf(sign) == Val("inf", sign, 0, << >>)
NaT == Val("NaT", 0, 0, << >>)
Raised == Val("raise", 0, 0, << >>)
PyStr(s) == Val("str", 0, 0, s)
TsText(i, fmt) == Val("tstext", i, fmt, << >>)
Datetime(i) == Val("datetime", i, 0, << >>)

RECURSIVE Normalise(_, _)
Normalise(m, e) ==
  IF m = 0 THEN <<0, 0>>
  ELSE IF m % 10 = 0 THEN Normalise(m \div 10, e + 1)
  ELSE <<m, e>>

PyFloat(m, e) == LET n == Normalise(m, e) IN Val("float", n[1], n[2], << >>)
PyInt(m) == LET n == Normalise(m, 0) IN Val("int", n[1], n[2], << >>)

\* isinstance(x, float): numpy.float64 is a subclass of float.
IsFloat(x) == x.t \in {"float", "nan", "inf"}

(***************************************************************************)
(* float(s) on a str: optional sign, then nan / inf / infinity in any      *)
(* letter case, or decimal digits with at most one point and an optional   *)
(* exponent.  Surrounding whitespace is ignored.  Anything else raises     *)
(* ValueError.                                                             *)
(***************************************************************************)
DigitSet == {Digits[i] : i \in 1..Len(Digits)}

DigitValue == [c \in DigitSet |-> (CHOOSE i \in 1..Len(Digits) : Digits[i] = c) - 1]

IsDigit(c) == c \in DigitSet

DigitVal(c) == DigitValue[c]

RECURSIVE ToNat(_)
ToNat(s) ==
  IF s = << >> THEN 0
  ELSE 10 * ToNat(SubSeq(s, 1, Len(s) - 1)) + DigitVal(s[Len(s)])

AllDigits(s) == s # << >> /\ \A i \in 1..Len(s) : IsDigit(s[i])

HasSign(s) == s # << >> /\ s[1] \in {"+", "-"}

Unsigned(s) == IF HasSign(s) THEN Tail(s) ELSE s

SignOf(s) == IF s # << >> /\ s[1] = "-" THEN -1 ELSE 1

\* The decimal mantissa "ddd", "ddd.ddd", "ddd." or ".ddd".
IsMantissa(s) ==
  /\ \A i \in 1..Len(s) : IsDigit(s[i]) \/ s[i] = "."
  /\ Cardinality({i \in 1..Len(s) : s[i] = "."}) <= 1
  /\ \E i \in 1..Len(s) : IsDigit(s[i])

MantissaDigits(s) == SelectSeq(s, IsDigit)

FracLen(s) ==
  IF \E i \in 1..Len(s) : s[i] = "."
    THEN Len(s) - (CHOOSE i \in 1..Len(s) : s[i] = ".")
    ELSE 0

ExpPos(s) ==
  IF \E i \in 1..Len(s) : s[i] \in {"e", "E"}
    THEN CHOOSE i \in 1..Len(s) :
           s[i] \in {"e", "E"} /\ \A j \in 1..(i-1) : s[j] \notin {"e", "E"}
    ELSE 0

IsDecimal(u) ==
  LET p == ExpPos(u)
  IN  IF p = 0 THEN IsMantissa(u)
      ELSE /\ IsMantissa(SubSeq(u, 1, p - 1))
           /\ AllDigits(Unsigned(SubSeq(u, p + 1, Len(u))))

DecimalValue(sign, u) ==
  LET p == ExpPos(u)
      mant == IF p = 0 THEN u ELSE SubSeq(u, 1, p - 1)
      ex == IF p = 0 THEN << >> ELSE SubSeq(u, p + 1, Len(u))
      exv == IF p = 0 THEN 0 ELSE SignOf(ex) * ToNat(Unsigned(ex))
  IN  PyFloat(sign * ToNat(MantissaDigits(mant)), exv - FracLen(mant))

float(s) ==
  LET w == strip(s)
      u == Unsigned(w)
  IN  IF lower(u) = <<"n","a","n">> THEN NaN
      ELSE IF lower(u) \in {<<"i","n","f">>, <<"i","n","f","i","n","i","t","y">>}
        THEN Inf(SignOf(w))
      ELSE IF IsDecimal(u) THEN DecimalValue(SignOf(w), u)
      ELSE Raised

(***************************************************************************)
(* str(x): the text of a value.  A str is itself, a not-a-number float is  *)
(* "nan", an int its digits, a float its digits with a point.              *)
(***************************************************************************)
RECURSIVE NatText(_)
NatText(n) ==
  IF n < 10 THEN <<Digits[n + 1]>>
  ELSE NatText(n \div 10) \o <<Digits[(n % 10) + 1]>>

RECURSIVE Zeros(_)
Zeros(k) == IF k <= 0 THEN << >> ELSE <<"0">> \o Zeros(k - 1)

SignText(m) == IF m < 0 THEN <<"-">> ELSE << >>

Abs(m) == IF m < 0 THEN -m ELSE m

IntText(m, e) == SignText(m) \o NatText(Abs(m)) \o Zeros(e)

FloatText(m, e) ==
  IF e >= 0 THEN IntText(m, e) \o <<".", "0">>
  ELSE LET d == NatText(Abs(m))
           padded == Zeros(1 - e - Len(d)) \o d
           k == Len(padded) + e
       IN  SignText(m) \o SubSeq(padded, 1, k) \o <<".">>
             \o SubSeq(padded, k + 1, Len(padded))

str(x) ==
  CASE x.t = "str" -> x.s
    [] x.t = "nan" -> <<"n","a","n">>
    [] x.t = "inf" -> SignText(x.m) \o <<"i","n","f">>
    [] x.t = "int" -> IntText(x.m, x.e)
    [] x.t = "float" -> FloatText(x.m, x.e)
    [] x.t = "None" -> <<"N","o","n","e">>

(***************************************************************************)
(* _safe_float and _safe_str.                                              *)
(***************************************************************************)
\* The body of the try block: its value, or Raised.
safe_float_try(x) ==
  IF x = PyNone THEN PyNone
  ELSE IF IsFloat(x) THEN x
  ELSE LET s == strip(str(x))
       IN  IF s = << >> \/ lower(s) \in {<<"n","a","n">>, <<"n","o","n","e">>,
                                          <<"n","u","l","l">>}
             THEN PyNone
             ELSE float(replace_comma(s))

\* Faulty variant: the try block without its except clause.
safe_float_no_except(x) == safe_float_try(x)

safe_float(x) ==
  IF safe_float_try(x) = Raised THEN PyNone ELSE safe_float_try(x)

safe_str(x) ==
  IF x = PyNone THEN PyNone
  ELSE LET s == strip(str(x))
       IN  IF s # << >> THEN PyStr(s) ELSE PyNone

(***************************************************************************)
(* Python dicts: a sequence of <<key, value>> pairs with distinct keys, in *)
(* insertion order.                                                        *)
(***************************************************************************)
DictHas(d, k) == \E i \in 1..Len(d) : d[i][1] = k

DictGet(d, k) == d[CHOOSE i \in 1..Len(d) : d[i][1] = k][2]

DictSet(d, k, v) ==
  IF DictHas(d, k)
    THEN [i \in 1..Len(d) |-> IF d[i][1] = k THEN <<k, v>> ELSE d[i]]
    ELSE Append(d, <<k, v>>)

\* {**a, **b}
RECURSIVE DictMerge(_, _)
DictMerge(a, b) ==
  IF b = << >> THEN a
  ELSE DictMerge(DictSet(a, b[1][1], b[1][2]), Tail(b))

DictValues(d) == {d[i][2] : i \in 1..Len(d)}

(***************************************************************************)
(* The column mapping of ingest_electrical_csv.                            *)
(***************************************************************************)
default_map ==
  << <<<<"t","i","m","e","s","t","a","m","p">>, <<"t","i","m","e","s","t","a","m","p">>>>,
     <<<<"t","i","m","e">>, <<"t","i","m","e","s","t","a","m","p">>>>,
     <<<<"d","a","t","e","t","i","m","e">>, <<"t","i","m","e","s","t","a","m","p">>>>,
     <<<<"p","o","w","e","r","_","k","w">>, <<"p","o","w","e","r","_","k","w">>>>,
     <<<<"p","o","w","e","r","_","k","w","_","a","v","g">>, <<"p","o","w","e","r","_","k","w">>>>,
     <<<<"p","o","w","e","r">>, <<"p","o","w","e","r","_","k","w">>>>,
     <<<<"p","o","w","e","r","_","k","W">>, <<"p","o","w","e","r","_","k","w">>>>,
     <<<<"v","o","l","t","a","g","e","_","v">>, <<"v","o","l","t","a","g","e","_","v">>>>,
     <<<<"v","o","l","t","a","g","e">>, <<"v","o","l","t","a","g","e","_","v">>>>,
     <<<<"c","u","r","r","e","n","t","_","a">>, <<"c","u","r","r","e","n","t","_","a">>>>,
     <<<<"c","u","r","r","e","n","t">>, <<"c","u","r","r","e","n","t","_","a">>>>,
     <<<<"e","n","e","r","g","y","_","k","w","h">>, <<"e","n","e","r","g","y","_","k","w","h">>>>,
     <<<<"e","n","e","r","g","y">>, <<"e","n","e","r","g","y","_","k","w","h">>>>,
     <<<<"s","t","a","t","u","s">>, <<"s","t","a","t","u","s">>>> >>

\* The target column names accepted as they are (the elif branch).
TargetNames ==
  {<<"t","i","m","e","s","t","a","m","p">>, <<"p","o","w","e","r","_","k","w">>, <<"v","o","l","t","a","g","e","_","v">>, <<"c","u","r","r","e","n","t","_","a">>, <<"e","n","e","r","g","y","_","k","w","h">>,
   <<"s","t","a","t","u","s">>}

\* col_mappings is None or empty: the defaults; otherwise merged over them.
CombinedMap(col_mappings) ==
  IF col_mappings # << >> THEN DictMerge(default_map, col_mappings)
  ELSE default_map

\* chunk_df.columns = [c.strip() for c in chunk_df.columns]
StripColumns(columns) == [i \in 1..Len(columns) |-> strip(columns[i])]

\* One iteration of `for c in chunk_df.columns`.
MapColumn(col_map_existing, combined_map, c) ==
  LET lowered == lower(c)
  IN  IF DictHas(combined_map, lowered)
        THEN DictSet(col_map_existing, c, DictGet(combined_map, lowered))
      ELSE IF lowered \in TargetNames
        THEN DictSet(col_map_existing, c, lowered)
      ELSE col_map_existing

RECURSIVE MapColumns(_, _, _)
MapColumns(col_map_existing, combined_map, columns) ==
  IF columns = << >> THEN col_map_existing
  ELSE MapColumns(MapColumn(col_map_existing, combined_map, columns[1]),
                  combined_map, Tail(columns))

\* col_map_existing of a chunk with the given header row.
ResolveColumns(headers, col_mappings) ==
  MapColumns(<< >>, CombinedMap(col_mappings), StripColumns(headers))

\* any(v == "timestamp" for v in col_map_existing.values())
HasTimestamp(col_map_existing) == <<"t","i","m","e","s","t","a","m","p">> \in DictValues(col_map_existing)

\* Position in the file of the column called c once the headers are stripped.
ColumnIndex(headers, c) ==
  CHOOSE j \in 1..Len(headers) : strip(headers[j]) = c

(***************************************************************************)
(* df_to_insert: for each target column the index of the source column it  *)
(* was last assigned from (0: the column is absent).  The assignments run  *)
(* in the order of col_map_existing.items(), a later one replacing an      *)
(* earlier one to the same target.                                         *)
(***************************************************************************)
SourceOf(headers, col_map_existing, target) ==
  IF target \in DictValues(col_map_existing)
    THEN LET last == CHOOSE i \in 1..Len(col_map_existing) :
                       /\ col_map_existing[i][2] = target
                       /\ \A j \in (i+1)..Len(col_map_existing) :
                            col_map_existing[j][2] # target
         IN  ColumnIndex(headers, col_map_existing[last][1])
    ELSE 0

(***************************************************************************)
(* pd.read_csv(csv_path, chunksize=chunk_size): the cells of one chunk as  *)
(* Python values.  A file cell is a text: PyStr(chars), or TsText(i, fmt)  *)
(* for a text that spells the instant i in the file's timestamp format.    *)
(* The type of a column is inferred per chunk: a text of the reader's      *)
(* missing-value list becomes a not-a-number float; a column whose other   *)
(* cells are all numbers is read as int (no missing cell, all integers)    *)
(* or float; any other column keeps its texts.                             *)
(***************************************************************************)
NAValues ==
  {<< >>, <<"#","N","/","A">>, <<"#","N","/","A"," ","N","/","A">>, <<"#","N","A">>, <<"-","1",".","#","I","N","D">>, <<"-","1",".","#","Q","N","A","N">>, <<"-","N","a","N">>,
   <<"-","n","a","n">>, <<"1",".","#","I","N","D">>, <<"1",".","#","Q","N","A","N">>, <<"<","N","A",">">>, <<"N","/","A">>, <<"N","A">>, <<"N","U","L","L">>, <<"N","a","N">>,
   <<"N","o","n","e">>, <<"n","/","a">>, <<"n","a","n">>, <<"n","u","l","l">>}

CellIsNA(raw) == raw.t = "str" /\ raw.s \in NAValues

CellIsNumber(raw) ==
  raw.t = "str" /\ ~CellIsNA(raw) /\ float(raw.s).t \in {"float", "inf"}

CellIsInteger(raw) == CellIsNumber(raw) /\ AllDigits(Unsigned(strip(raw.s)))

ColumnKind(cells) ==
  IF cells # << >> /\ \A i \in 1..Len(cells) : CellIsNA(cells[i]) \/ CellIsNumber(cells[i])
    THEN IF \A i \in 1..Len(cells) : CellIsInteger(cells[i])
           THEN "int64" ELSE "float64"
    ELSE "object"

ReadCell(kind, raw) ==
  IF CellIsNA(raw) THEN NaN
  ELSE IF kind = "int64"
    THEN LET f == float(raw.s) IN Val("int", f.m, f.e, << >>)
  ELSE IF kind = "float64" THEN float(raw.s)
  ELSE raw

Column(rows, j) == [i \in 1..Len(rows) |-> rows[i][j]]

ReadRows(rows, kinds) ==
  [i \in 1..Len(rows) |->
     [j \in 1..Len(rows[i]) |-> ReadCell(kinds[j], rows[i][j])]]

\* The data frame of a chunk of file rows.
ReadFrame(rows) ==
  IF rows = << >> THEN << >>
  ELSE ReadRows(rows, [j \in 1..Len(rows[1]) |-> ColumnKind(Column(rows, j))])

(***************************************************************************)
(* pd.to_datetime(..., errors="coerce") and .dt.strftime("%Y-%m-%d          *)
(* %H:%M:%S") on the cells a timestamp column of the explored files holds: *)
(* a timestamp text, another text, or a missing value.                     *)
(***************************************************************************)
to_datetime(x) ==
  CASE x.t = "tstext" -> Datetime(x.m)
    [] x.t \in {"str", "nan", "None"} -> NaT

strftime(x) == TsText(x.m, 0)

(***************************************************************************)
(* The rows built from a chunk: the frame's rows whose timestamp parsed,   *)
(* in order, each as a parameter tuple of the INSERT statement.            *)
(***************************************************************************)
CellOf(row, src) == IF src = 0 THEN PyNone ELSE row[src]

\* Faulty variant: dropna that keeps only the rows before the first invalid one.
dropna_truncating(frame, ts_src) ==
  IF \E i \in 1..Len(frame) : to_datetime(frame[i][ts_src]) = NaT
    THEN SubSeq(frame, 1,
           (CHOOSE i \in 1..Len(frame) :
              /\ to_datetime(frame[i][ts_src]) = NaT
              /\ \A j \in 1..(i-1) : to_datetime(frame[j][ts_src]) # NaT) - 1)
    ELSE frame

\* df_to_insert.dropna(subset=["timestamp"])
dropna(frame, ts_src) ==
  SelectSeq(frame, LAMBDA row : to_datetime(row[ts_src]) # NaT)

InsertParams(system_id, row, src) ==
  [system_id |-> system_id,
   timestamp |-> strftime(to_datetime(row[src[<<"t","i","m","e","s","t","a","m","p">>]])),
   power_kw |-> safe_float(CellOf(row, src[<<"p","o","w","e","r","_","k","w">>])),
   voltage_v |-> safe_float(CellOf(row, src[<<"v","o","l","t","a","g","e","_","v">>])),
   current_a |-> safe_float(CellOf(row, src[<<"c","u","r","r","e","n","t","_","a">>])),
   energy_kwh |-> safe_float(CellOf(row, src[<<"e","n","e","r","g","y","_","k","w","h">>])),
   status |-> safe_str(CellOf(row, src[<<"s","t","a","t","u","s">>]))]

Sources(headers, col_map_existing) ==
  [t \in TargetNames |-> SourceOf(headers, col_map_existing, t)]

ParamRows(system_id, kept, src) ==
  [i \in 1..Len(kept) |-> InsertParams(system_id, kept[i], src)]

BuildRows(system_id, headers, col_map_existing, frame) ==
  ParamRows(system_id,
            dropna(frame, SourceOf(headers, col_map_existing, <<"t","i","m","e","s","t","a","m","p">>)),
            Sources(headers, col_map_existing))

NumericFields == {"power_kw", "voltage_v", "current_a", "energy_kwh"}

\* Whether evaluating the row list raised (an exception left a coercion).
RowsRaised(rows) ==
  \E i \in 1..Len(rows) : \E f \in NumericFields \cup {"status"} : rows[i][f] = Raised

(***************************************************************************)
(* SQLite: binding the parameters of one INSERT into electrical_data.      *)
(* None and a not-a-number float are stored as NULL; a number in a REAL    *)
(* column is stored as a real.  id is the AUTOINCREMENT key.               *)
(***************************************************************************)
NULL == Val("NULL", 0, 0, << >>)

Bind(v) ==
  IF v.t \in {"None", "nan"} THEN NULL
  ELSE IF v.t = "int" THEN Val("float", v.m, v.e, << >>)
  ELSE v

StoredRow(id, p) ==
  [id |-> id,
   system_id |-> p.system_id,
   timestamp |-> Bind(p.timestamp),
   power_kw |-> Bind(p.power_kw),
   voltage_v |-> Bind(p.voltage_v),
   current_a |-> Bind(p.current_a),
   energy_kwh |-> Bind(p.energy_kwh),
   status |-> Bind(p.status)]

(***************************************************************************)
(* The explored inputs.                                                    *)
(*                                                                         *)
(* A CSV file is [headers, rows, ts_col]: the header row, the data rows    *)
(* (each a sequence of cells, one per header) and the column that holds    *)
(* the time axis.  Row i of a file spells the instant i, so that rows can  *)
(* be told apart and their order observed.                                 *)
(***************************************************************************)
SystemIds == {1}

\* Header rows: the scenario of the specification, one with mixed case and
\* padding, and one whose names only a caller's mapping can resolve.
ScenarioLayout == [headers |-> <<<<"d","a","t","e","t","i","m","e">>, <<"p","o","w","e","r">>, <<"v","o","l","t","a","g","e">>>>, fmt |-> 0]

PaddedLayout == [headers |-> <<<<" ","T","i","m","e"," ">>, <<"p","o","w","e","r","_","k","W">>, <<"S","t","a","t","u","s">>>>, fmt |-> 1]

SpanishLayout == [headers |-> <<<<"f","e","c","h","a">>, <<"P","o","t","e","n","c","i","a">>, <<"e","s","t","a","d","o">>>>, fmt |-> 0]

\* col_mappings: an override of a default key, and a mapping for the third
\* layout (one key written with a capital letter).
PowerAsEnergy == << <<<<"p","o","w","e","r">>, <<"e","n","e","r","g","y","_","k","w","h">>>> >>

SpanishMapping ==
  << <<<<"f","e","c","h","a">>, <<"t","i","m","e","s","t","a","m","p">>>>, <<<<"P","o","t","e","n","c","i","a">>, <<"p","o","w","e","r","_","k","w">>>>,
     <<<<"e","s","t","a","d","o">>, <<"s","t","a","t","u","s">>>> >>

\* The calls explored: a header row with the col_mappings argument
\* (<< >>: None).
Scenarios ==
  { [layout |-> ScenarioLayout, col_mappings |-> << >>],
    [layout |-> ScenarioLayout, col_mappings |-> PowerAsEnergy],
    [layout |-> PaddedLayout, col_mappings |-> << >>],
    [layout |-> SpanishLayout, col_mappings |-> << >>],
    [layout |-> SpanishLayout, col_mappings |-> SpanishMapping] }

\* Cells of the second and third column, taken in turn by the rows.
SampleNumbers == <<<<"1",",","5">>, << >>, <<"2",".","5">>, <<"a","b","c">>, <<"3">>>>

SampleLabels == <<<<"O","K">>, <<" ","o","n"," ">>, << >>, <<"7">>, <<"n","a","n">>>>

Pick(samples, i) == PyStr(samples[((i - 1) % Len(samples)) + 1])

\* An unparseable timestamp cell: a text that is no date, or an empty cell.
BadTimestamp(i) == IF i % 2 = 1 THEN PyStr(<<"n","o","t","-","a","-","d","a","t","e">>) ELSE PyStr(<< >>)

ChunkFile(layout, n, bad) ==
  [headers |-> layout.headers,
   ts_col |-> 1,
   rows |-> [i \in 1..n |->
               << IF i \in bad THEN BadTimestamp(i) ELSE TsText(i, layout.fmt),
                  Pick(SampleNumbers, i), Pick(SampleLabels, i) >>]]

\* Numeric and status cells of the one-row files.
NumberTexts ==
  {<< >>, <<"n","a","n">>, <<"N","a","N">>, <<"N","o","n","e">>, <<"n","o","n","e">>, <<"n","u","l","l">>, <<"N","U","L","L">>, <<" ","N","u","l","l"," ">>, <<" "," ">>,
   <<"1","2">>, <<"-","4",".","5","0">>, <<"1",",","2","5">>, <<" ","7"," ">>, <<"1","e","3">>, <<"i","n","f">>, <<"a","b","c">>, <<"1",",","2",",","3">>, <<"N","A">>}

LabelTexts == {<< >>, <<" "," ">>, <<"O","K">>, <<" ","f","a","u","l","t"," ">>, <<"n","a","n">>, <<"N","U","L","L">>, <<"1">>, <<"2",".","5","0">>}

\* A second row that makes both of its columns text columns.
TextRow == <<TsText(2, 0), PyStr(<<"x">>), PyStr(<<"y">>)>>

CellFiles ==
  { [headers |-> <<<<"t","i","m","e","s","t","a","m","p">>, <<"p","o","w","e","r">>, <<"s","t","a","t","u","s">>>>,
     ts_col |-> 1,
     rows |-> <<<<TsText(1, 0), PyStr(p), PyStr(q)>>>> \o tail] :
      p \in NumberTexts, q \in LabelTexts, tail \in {<< >>, <<TextRow>>} }

(***************************************************************************)
(* State.                                                                  *)
(***************************************************************************)
VARIABLES
  csv,               \* the file at csv_path
  csv_exists,        \* os.path.exists(csv_path)
  pandas_ok,         \* pd is not None
  system_id,         \* argument
  col_mappings,      \* argument
  chunk_size,        \* argument
  pc,                \* where the caller or ingest_electrical_csv stands
  run,               \* calls of ingest_electrical_csv made so far
  conn,              \* "none", "open" or "closed"
  pos,               \* df_iter: file rows already read
  first_chunk,       \* df_iter: no chunk was returned yet
  chunk_df,          \* the current chunk, as read
  col_map_existing,  \* of the current chunk
  rows,              \* parameter tuples of the current chunk
  pending,           \* rows inserted by the open transaction
  electrical_data,   \* the committed rows of the table
  total_inserted,    \* local counter
  ret,               \* value returned by the last completed call
  calls,             \* executemany calls made so far
  entry,             \* history: table and calls when the current call began
  chunk_log,         \* history: per committed chunk, rows read and inserted
  history            \* history: outcome and table at the end of each call

vars ==
  <<csv, csv_exists, pandas_ok, system_id, col_mappings, chunk_size,
    pc, run, conn, pos, first_chunk, chunk_df, col_map_existing, rows, pending,
    electrical_data, total_inserted, ret, calls, entry, chunk_log, history>>

args == <<csv, csv_exists, pandas_ok, system_id, col_mappings, chunk_size>>

Terminal ==
  {"done", "import_error", "file_not_found", "schema_error", "persist_error",
   "value_error"}

Min(a, b) == IF a < b THEN a ELSE b

\* No value was returned: a call that raised, or no call yet.
NoReturn == Val("noreturn", 0, 0, << >>)

(***************************************************************************)
(* Init: the database as create_db leaves it (electrical_data empty), and  *)
(* the arguments of the calls to come.                                     *)
(***************************************************************************)
Start ==
  /\ pc = "idle" /\ run = 0 /\ conn = "none" /\ pos = 0 /\ first_chunk = TRUE
  /\ chunk_df = << >> /\ col_map_existing = << >> /\ rows = << >>
  /\ pending = << >> /\ electrical_data = << >> /\ total_inserted = 0
  /\ ret = NoReturn /\ calls = 0
  /\ entry = [table |-> << >>, calls |-> 0]
  /\ chunk_log = << >> /\ history = << >>
  /\ system_id \in SystemIds

Init ==
  /\ Start
  /\ \/ /\ \E sc \in Scenarios, n \in 0..MaxRows, bad \in SUBSET (1..MaxRows) :
             /\ bad \subseteq 1..n
             /\ Cardinality(bad) <= MaxBad
             /\ csv = ChunkFile(sc.layout, n, bad)
             /\ col_mappings = sc.col_mappings
        /\ chunk_size \in 1..MaxChunk
        /\ csv_exists = TRUE /\ pandas_ok = TRUE
     \/ /\ csv \in CellFiles
        /\ col_mappings = << >>
        /\ chunk_size = MaxChunk
        /\ csv_exists = TRUE /\ pandas_ok = TRUE
     \/ /\ csv = ChunkFile(PaddedLayout, 1, {})
        /\ col_mappings = << >>
        /\ chunk_size = 1
        /\ \E e \in {<<FALSE, TRUE>>, <<TRUE, FALSE>>, <<FALSE, FALSE>>} :
             csv_exists = e[1] /\ pandas_ok = e[2]

(***************************************************************************)
(* ingest_electrical_csv, from its entry to the loop over df_iter.         *)
(***************************************************************************)
\* The caller ingests the file, and again after a call that completed; a
\* call that raised ends the behaviour.
Call ==
  /\ pc \in {"idle", "done"}
  /\ run < MaxRuns
  /\ run' = run + 1
  /\ entry' = [table |-> electrical_data, calls |-> calls]
  /\ chunk_log' = << >>
  /\ ret' = NoReturn
  /\ IF ~pandas_ok
       THEN /\ pc' = "import_error"
            /\ history' = Append(history, [outcome |-> "import_error", size |-> Len(electrical_data)])
            /\ UNCHANGED <<conn, pos, first_chunk, total_inserted>>
     ELSE IF ~csv_exists
       THEN /\ pc' = "file_not_found"
            /\ history' = Append(history, [outcome |-> "file_not_found", size |-> Len(electrical_data)])
            /\ UNCHANGED <<conn, pos, first_chunk, total_inserted>>
     ELSE /\ pc' = "iter"
          /\ pos' = 0 /\ first_chunk' = TRUE
          /\ conn' = "open"
          /\ total_inserted' = 0
          /\ UNCHANGED history
  /\ chunk_df' = << >> /\ col_map_existing' = << >> /\ rows' = << >>
  /\ pending' = << >>
  /\ UNCHANGED <<args, electrical_data, calls>>

\* Faulty variant: an iterator that returns no chunk for a file without data rows.
ChunkAvailableNoEmptyFrame(p, n, first) == p < n

\* TextFileReader.__next__: a chunk while rows remain, and one empty frame
\* (with the columns) for a file that has a header row and no data rows.
ChunkAvailable(p, n, first) == p < n \/ first

\* Faulty variant: a chunk of one row too many.
ChunkEndOffByOne(p, size, n) == Min(p + size + 1, n)

ChunkEnd(p, size, n) == Min(p + size, n)

\* for chunk_df in df_iter: the next chunk of at most chunk_size rows.
NextChunk ==
  /\ pc = "iter"
  /\ ChunkAvailable(pos, Len(csv.rows), first_chunk)
  /\ LET end == ChunkEnd(pos, chunk_size, Len(csv.rows))
     IN  /\ chunk_df' = ReadFrame(SubSeq(csv.rows, pos + 1, end))
         /\ pos' = end
  /\ first_chunk' = FALSE
  /\ pc' = "chunk"
  /\ UNCHANGED <<args, run, conn, col_map_existing, rows, pending, electrical_data,
                 total_inserted, ret, calls, entry, chunk_log, history>>

\* The loop body up to the try statement: the columns are stripped and
\* mapped, ValueError is raised without a timestamp column, otherwise the
\* rows to insert are built.
PrepareChunk ==
  /\ pc = "chunk"
  /\ \E m \in {ResolveColumns(csv.headers, col_mappings)} :
     \E built \in {IF HasTimestamp(m)
                     THEN BuildRows(system_id, csv.headers, m, chunk_df)
                     ELSE << >>} :
         /\ col_map_existing' = m
         /\ IF ~HasTimestamp(m)
              THEN /\ pc' = "schema_error"
                   /\ rows' = << >>
                   /\ history' = Append(history, [outcome |-> "schema_error", size |-> Len(electrical_data)])
            ELSE IF RowsRaised(built)
              THEN /\ pc' = "value_error"
                   /\ rows' = << >>
                   /\ history' = Append(history, [outcome |-> "value_error", size |-> Len(electrical_data)])
            ELSE /\ pc' = "insert"
                 /\ rows' = built
                 /\ UNCHANGED history
  /\ UNCHANGED <<args, run, conn, pos, first_chunk, chunk_df, pending, electrical_data,
                 total_inserted, ret, calls, entry, chunk_log>>

(***************************************************************************)
(* The transaction of a chunk.                                             *)
(***************************************************************************)
\* Faulty variant: INSERT OR IGNORE under a unique (system_id, timestamp).
executemany_unique(table, params) ==
  LET fresh == SelectSeq(params, LAMBDA p :
                 \A i \in 1..Len(table) :
                   ~(table[i].system_id = p.system_id /\ table[i].timestamp = Bind(p.timestamp)))
  IN  [i \in 1..Len(fresh) |-> StoredRow(Len(table) + i, fresh[i])]

\* cur.executemany("INSERT INTO electrical_data ...", rows): the rows the
\* statement adds to a table, with their keys.
executemany(table, params) ==
  [i \in 1..Len(params) |-> StoredRow(Len(table) + i, params[i])]

\* Faulty variant: the except clause commits what the chunk inserted.
rollback_keeping(table, inserted) == table \o inserted

\* conn.rollback(): the table without the rows of the open transaction.
rollback(table, inserted) == table

ExecuteMany ==
  /\ pc = "insert"
  /\ calls' = calls + 1
  /\ pending' = executemany(electrical_data, rows)
  /\ pc' = "commit"
  /\ UNCHANGED <<args, run, conn, pos, first_chunk, chunk_df, col_map_existing, rows,
                 electrical_data, total_inserted, ret, entry, chunk_log, history>>

\* conn.commit(); total_inserted += len(rows)
Commit ==
  /\ pc = "commit"
  /\ electrical_data' = electrical_data \o pending
  /\ pending' = << >>
  /\ total_inserted' = total_inserted + Len(rows)
  /\ chunk_log' = Append(chunk_log, [read |-> Len(chunk_df), inserted |-> Len(rows)])
  /\ pc' = "iter"
  /\ UNCHANGED <<args, run, conn, pos, first_chunk, chunk_df, col_map_existing, rows,
                 ret, calls, entry, history>>

\* The storage fails inside the try statement: after j of the chunk's rows
\* were inserted (j = len(rows): at conn.commit()).
StorageFailure ==
  /\ pc = "insert"
  /\ calls' = calls + 1
  /\ \E inserted \in {executemany(electrical_data, rows)} :
       \E j \in 0..Len(inserted) : pending' = SubSeq(inserted, 1, j)
  /\ pc' = "except"
  /\ UNCHANGED <<args, run, conn, pos, first_chunk, chunk_df, col_map_existing, rows,
                 electrical_data, total_inserted, ret, entry, chunk_log, history>>

\* except Exception: conn.rollback(); raise RuntimeError(...)
Rollback ==
  /\ pc = "except"
  /\ electrical_data' = rollback(electrical_data, pending)
  /\ pending' = << >>
  /\ pc' = "persist_error"
  /\ history' = Append(history, [outcome |-> "persist_error", size |-> Len(electrical_data')])
  /\ UNCHANGED <<args, run, conn, pos, first_chunk, chunk_df, col_map_existing, rows,
                 total_inserted, ret, calls, entry, chunk_log>>

\* The loop is over: conn.close(), the total is printed, and the function
\* ends without a return statement.
Finish ==
  /\ pc = "iter"
  /\ ~ChunkAvailable(pos, Len(csv.rows), first_chunk)
  /\ conn' = "closed"
  /\ ret' = PyNone
  /\ pc' = "done"
  /\ history' = Append(history, [outcome |-> "done", size |-> Len(electrical_data)])
  /\ UNCHANGED <<args, run, pos, first_chunk, chunk_df, col_map_existing, rows, pending,
                 electrical_data, total_inserted, calls, entry, chunk_log>>

Next ==
  \/ Call
  \/ NextChunk
  \/ PrepareChunk
  \/ ExecuteMany
  \/ Commit
  \/ StorageFailure
  \/ Rollback
  \/ Finish

Spec == Init /\ [][Next]_vars

(***************************************************************************)
(* Vocabulary of the properties.                                           *)
(***************************************************************************)
NRows == Len(csv.rows)

\* The timestamp cell of file row i spells an instant.
Parseable(i) == csv.rows[i][csv.ts_col].t = "tstext"

\* The file rows with a parseable timestamp, in file order.
Survivors == SelectSeq([i \in 1..NRows |-> i], Parseable)

\* The rows the current call has committed so far.
Added == SubSeq(electrical_data, Len(entry.table) + 1, Len(electrical_data))

\* Some header of the file resolves to the timestamp attribute.
ResolvesTimestamp == HasTimestamp(ResolveColumns(csv.headers, col_mappings))

Ceil(a, b) == (a + b - 1) \div b

FieldText ==
  [power_kw |-> <<"p","o","w","e","r","_","k","w">>, voltage_v |-> <<"v","o","l","t","a","g","e","_","v">>,
   current_a |-> <<"c","u","r","r","e","n","t","_","a">>, energy_kwh |-> <<"e","n","e","r","g","y","_","k","w","h">>,
   status |-> <<"s","t","a","t","u","s">>]

\* The file cell a field of the stored row of file row i comes from
\* (PyNone: no column of the file resolves to the field).
SourceCell(i, f) ==
  CellOf(csv.rows[i],
         SourceOf(csv.headers, ResolveColumns(csv.headers, col_mappings), FieldText[f]))

\* A no-data numeric input: absent, empty, or nan / none / null in any case.
NoData(cell) ==
  \/ cell = PyNone
  \/ /\ cell.t = "str"
     /\ \/ strip(cell.s) = << >>
        \/ lower(strip(cell.s)) \in {<<"n","a","n">>, <<"n","o","n","e">>, <<"n","u","l","l">>}

\* A stored row without its key.
Reading(r) ==
  <<r.system_id, r.timestamp, r.power_kw, r.voltage_v, r.current_a, r.energy_kwh,
    r.status>>

(***************************************************************************)
(* C1. When a call on a file with a timestamp-mappable header completes,   *)
(* the rows it added are as many as the file rows minus those with an      *)
(* unparseable timestamp: every added row carries the canonical timestamp  *)
(* of a parseable file row, and every parseable file row was added.        *)
(***************************************************************************)
C1_ParseableRowsPersisted ==
  (pc = "done" /\ ResolvesTimestamp) =>
    /\ Len(Added) = NRows - Cardinality({i \in 1..NRows : ~Parseable(i)})
    /\ \A k \in 1..Len(Added) : Added[k].timestamp.t = "tstext"
    /\ {Added[k].timestamp : k \in 1..Len(Added)}
         = {TsText(i, 0) : i \in {j \in 1..NRows : Parseable(j)}}

C1_Witness ==
  /\ pc = "done" /\ ResolvesTimestamp
  /\ NRows = 3 /\ Len(Survivors) = 2 /\ Len(Added) = 2

(***************************************************************************)
(* C2. When a call completes, the value it returns is the total count of   *)
(* rows inserted across all chunks.                                        *)
(***************************************************************************)
C2_ReturnsTotal ==
  pc = "done" => (ret = PyInt(total_inserted) /\ total_inserted = Len(Added))

(***************************************************************************)
(* C3. When the transaction of chunk k fails, it is rolled back and the    *)
(* error is raised: no row of chunk k is in electrical_data, the rows of   *)
(* chunks 1..k-1 remain, and no later chunk is inserted.                   *)
(***************************************************************************)
C3_FailedChunkRolledBack ==
  (pc \in {"except", "persist_error"}) =>
    LET k == Len(chunk_log) + 1
        before == Min((k - 1) * chunk_size, NRows)
        kept == SelectSeq([i \in 1..before |-> i], Parseable)
    IN  /\ pc = "persist_error" => pending = << >>
        /\ pos = Min(k * chunk_size, NRows)
        /\ Len(Added) = Len(kept)
        /\ \A i \in 1..Len(kept) : Added[i].timestamp = TsText(kept[i], 0)

C3_Witness ==
  /\ pc = "persist_error"
  /\ Len(chunk_log) = 1 /\ Len(Added) = 2 /\ Len(rows) >= 1
  /\ chunk_size = 2 /\ NRows = 5

(***************************************************************************)
(* C4. On a file none of whose headers resolves to the timestamp           *)
(* attribute (a file without data rows included), a call ends in the       *)
(* schema error and electrical_data is never changed: nothing is inserted  *)
(* before the error.                                                       *)
(***************************************************************************)
C4_SchemaErrorBeforeInsert ==
  (run >= 1 /\ pandas_ok /\ csv_exists /\ ~ResolvesTimestamp) =>
    /\ pc \in Terminal => pc = "schema_error"
    /\ electrical_data = entry.table
    /\ pending = << >>
    /\ calls = entry.calls

C4_Witness ==
  /\ pc = "schema_error" /\ NRows = 0
  /\ ~ResolvesTimestamp /\ electrical_data = entry.table

(***************************************************************************)
(* C5. Header resolution is case-insensitive over the effective mapping:   *)
(* a header equal, ignoring case, to a key of the defaults or of the       *)
(* overrides resolves to the target the effective mapping gives that key.  *)
(***************************************************************************)
Keys(d) == {d[i][1] : i \in 1..Len(d)}

C5_CaseInsensitiveResolution ==
  (pc \in {"insert", "schema_error"}) =>
    \A j \in 1..Len(csv.headers) :
      \A k \in Keys(default_map) \cup Keys(col_mappings) :
        lower(strip(csv.headers[j])) = lower(k) =>
          /\ DictHas(col_map_existing, strip(csv.headers[j]))
          /\ DictGet(col_map_existing, strip(csv.headers[j]))
               = DictGet(CombinedMap(col_mappings), k)

(***************************************************************************)
(* C6. Numeric coercion is total and maps every no-data input to the       *)
(* absent value: no call ends with an exception of a coercion, every       *)
(* numeric field of a stored row is NULL or a float, and it is NULL when   *)
(* its file cell is absent, empty, or nan / none / null in any case.       *)
(***************************************************************************)
C6_NumericCoercionTotal ==
  /\ pc # "value_error"
  /\ (pc = "done" /\ ResolvesTimestamp) =>
       /\ Len(Added) = Len(Survivors)
       /\ \A k \in 1..Min(Len(Added), Len(Survivors)) : \A f \in NumericFields :
            /\ Added[k][f].t \in {"NULL", "float", "inf"}
            /\ NoData(SourceCell(Survivors[k], f)) => Added[k][f] = NULL

\* An empty-like cell that the reader hands over as a not-a-number float.
C6_Witness ==
  /\ pc = "done" /\ NRows = 1 /\ Len(Added) = 1
  /\ SourceCell(1, "power_kw") = PyStr(<<"N","a","N">>)
  /\ chunk_df[1][2] = NaN
  /\ Added[1].power_kw = NULL

(***************************************************************************)
(* C7. The status of a stored row is absent when the source status is      *)
(* absent or empty after trimming, and otherwise the trimmed source text;  *)
(* a missing status is never stored as a text such as "nan".               *)
(***************************************************************************)
C7_StatusCoercion ==
  (pc = "done" /\ ResolvesTimestamp /\ Len(Added) = Len(Survivors)) =>
    \A k \in 1..Len(Added) :
      LET cell == SourceCell(Survivors[k], "status")
      IN  IF cell = PyNone \/ strip(cell.s) = << >>
            THEN Added[k].status = NULL
            ELSE Added[k].status = PyStr(strip(cell.s))

(***************************************************************************)
(* C8. Ingesting the same file twice, with no storage failure, leaves      *)
(* twice the rows of a single run: every reading of the first run is in    *)
(* the table a second time.                                                *)
(***************************************************************************)
C8_ReingestDuplicates ==
  (Len(history) >= 2 /\ history[1].outcome = "done" /\ history[2].outcome = "done") =>
    /\ history[2].size = 2 * history[1].size
    /\ \A k \in 1..history[1].size :
         /\ history[1].size + k <= Len(electrical_data)
         /\ Reading(electrical_data[k]) = Reading(electrical_data[history[1].size + k])

C8_Witness ==
  /\ Len(history) >= 2
  /\ history[1].outcome = "done" /\ history[2].outcome = "done"
  /\ history[1].size >= 2 /\ Len(electrical_data) = 2 * history[1].size

(***************************************************************************)
(* C9. On every path that ends a call after the connection was opened      *)
(* (completion, schema error, storage error), the connection is closed.    *)
(***************************************************************************)
C9_ConnectionReleased ==
  pc \in {"done", "schema_error", "persist_error"} => conn = "closed"

(***************************************************************************)
(* C10. The file is processed in chunks of at most chunk_size rows in      *)
(* file order, one transaction per chunk, committed before the next chunk  *)
(* is read, and the stored rows keep the order of the file.  As amended:   *)
(* a file of n >= 1 rows gives ceil(n / chunk_size) transactions, and a    *)
(* file with a header row and no data rows gives one, of zero rows.        *)
(***************************************************************************)
ChunksInOrder ==
  /\ \A i \in 1..Len(chunk_log) :
       /\ chunk_log[i].read <= chunk_size
       /\ chunk_log[i].read = Min(chunk_size, NRows - (i - 1) * chunk_size)
  /\ pc \in {"iter", "chunk", "insert"} =>
       LET committed == Min(Len(chunk_log) * chunk_size, NRows)
       IN  /\ pending = << >>
           /\ pc = "iter" => pos = committed
           /\ Len(Added) = Len(SelectSeq([i \in 1..committed |-> i], Parseable))
  /\ \A a, b \in 1..Len(Added) :
       a < b => Added[a].timestamp.m < Added[b].timestamp.m

C10_ChunkedInOrder ==
  /\ ChunksInOrder
  /\ pc = "done" =>
       Len(chunk_log) = IF NRows = 0 THEN 1 ELSE Ceil(NRows, chunk_size)

\* The claim as written: ceil(n / chunk_size) transactions for every n.
C10_ChunkedInOrder_AsWritten ==
  /\ ChunksInOrder
  /\ pc = "done" => Len(chunk_log) = Ceil(NRows, chunk_size)

C10_Witness ==
  /\ pc = "done" /\ NRows = 5 /\ chunk_size = 2
  /\ [i \in 1..Len(chunk_log) |-> chunk_log[i].read] = <<2, 2, 1>>
  /\ Len(Added) >= 2

=============================================================================
